---- MODULE Spec2Model ----
(***************************************************************************)
(* Admin session gate of the dashboard: AuthProvider (contexts/AuthContext) *)
(* with its identity provider and record store, the route guards of        *)
(* App.tsx and the two callers of the gate (Login, AdminLayout).           *)
(***************************************************************************)
EXTENDS Integers, Sequences, FiniteSets, TLC

(* ------------------------------ bounds --------------------------------- *)
\* sessions the identity provider issues in one behaviour
MaxSessions == 1
\* session-change events waiting for delivery
MaxQueue == 1
\* rows in one answer of the record store (verification function on its own)
MaxRows == 2

(* ------------------------------ values --------------------------------- *)
Null == "null"

\* u1 has the role row "admin", u2 the role row "editor"
Principals == {"u1", "u2"}

\* a JavaScript value found in the role column of a row
JsUndefined == [type |-> "undefined", str |-> ""]
JsNull == [type |-> "null", str |-> ""]
JsString(s) == [type |-> "string", str |-> s]

RoleStrings == {"admin", "Admin", "ADMIN", " admin", "admin ", "user", "editor", ""}
RoleValues == {JsUndefined, JsNull} \cup {JsString(s) : s \in RoleStrings}

\* one element of the answered array: null or an object with a role member
Rows == [isNull : {FALSE}, role : RoleValues] \cup {[isNull |-> TRUE, role |-> JsUndefined]}

RowSeqs == UNION {[1..n -> Rows] : n \in 0..MaxRows}

\* body of the HTTP answer as response.json() sees it
BodyInvalid == [kind |-> "invalid", rows |-> <<>>]
BodyNull == [kind |-> "null", rows |-> <<>>]
BodyObject == [kind |-> "object", rows |-> <<>>]
BodyArray(rs) == [kind |-> "array", rows |-> rs]

Statuses == {200, 401, 500}

\* outcome of fetch(): the promise rejects, or resolves with a status and body
FetchRejected == [fetch |-> "rejected", status |-> 0, body |-> BodyNull]
FetchResolved(st, b) == [fetch |-> "resolved", status |-> st, body |-> b]

Bodies == {BodyInvalid, BodyNull, BodyObject} \cup {BodyArray(rs) : rs \in RowSeqs}
Responses == {FetchRejected} \cup {FetchResolved(st, b) : st \in Statuses, b \in Bodies}

(* ----------------------- checkAdminStatusDirectly ---------------------- *)
\* response.ok
ResponseOk(resp) == resp.status >= 200 /\ resp.status <= 299

\* role === 'admin'
IsAdminRole(role) == role.type = "string" /\ role.str = "admin"

\* data && data.length > 0
HasRows(body) == body.kind = "array" /\ Len(body.rows) > 0

\* data[0].role === 'admin'; reading .role of a null element throws
FirstRowIsAdminMutLower(rows) ==
    IF rows[1].isNull THEN "throw"
    ELSE IF rows[1].role.type = "string"
            /\ rows[1].role.str \in {"admin", "Admin", "ADMIN"} THEN "true" ELSE "false"
FirstRowIsAdmin(rows) ==
    IF rows[1].isNull THEN "throw"
    ELSE IF IsAdminRole(rows[1].role) THEN "true" ELSE "false"

\* the body of the try block: "true", "false" or "throw"
TryBlock(resp) ==
    IF resp.fetch = "rejected" THEN "throw"
    ELSE IF ~ResponseOk(resp) THEN "false"
    ELSE IF resp.body.kind = "invalid" THEN "throw"
    ELSE IF HasRows(resp.body) THEN FirstRowIsAdmin(resp.body.rows)
    ELSE "false"

\* the catch clause turns every exception into false
CatchClauseMutRethrow(outcome) == outcome
CatchClause(outcome) == IF outcome = "throw" THEN "false" ELSE outcome

\* outcome of the call as its caller sees it: "true", "false" or "throw"
checkAdminStatusDirectly(resp) == CatchClause(TryBlock(resp))

(* ------------------------- principals and sessions --------------------- *)
\* the role rows the record store holds for a principal (user_profiles.role)
RoleOf(u) == IF u = "u1" THEN "admin" ELSE "editor"
StoredRows(u) == <<[isNull |-> FALSE, role |-> JsString(RoleOf(u))]>>

\* Session | null; the persisted session has token 1, the k-th issued one k + 1
NoSession == [user |-> Null, access_token |-> 0]
NewSession(u, n) == [user |-> u, access_token |-> n]

\* session?.user && session.access_token
HasUserAndToken(s) == s.user # Null /\ s.access_token # 0

\* a verification request: GET user_profiles?id=eq.<userId>, Bearer <token>
NoRequest == [userId |-> Null, token |-> 0]
Request(uid, tok) == [userId |-> uid, token |-> tok]

\* answers the record store can give to a request for userId: the fetch
\* fails, the server answers an error status, or it answers the stored rows
ServerAnswers(uid) ==
    { FetchRejected,
      FetchResolved(500, BodyObject),
      FetchResolved(200, BodyArray(StoredRows(uid))) }

(* ------------------------------ errors --------------------------------- *)
NoError == "null"
AccessDenied == "Access denied. Admin privileges required."
NoUserReturned == "No user returned"
\* error objects the provider returns from signInWithPassword
ProviderErrors == {"Invalid login credentials", "Email not confirmed"}
\* exceptions thrown by provider calls
SignInThrown == "signInWithPassword threw"
SignOutThrown == "signOut threw"
VerifyThrown == "checkAdminStatusDirectly threw"
Pending == "pending"

(* ------------------------------ state ---------------------------------- *)
VARIABLES
    \* AuthProvider state (useState)
    user, session, profile, loading, isAdmin,
    \* effect closure: isMounted flag, fallback timer, subscription
    isMounted, timeout, subscribed,
    \* identity provider: current session, sessions issued, undelivered events
    provSession, issued, events,
    \* initializeAuth: position, the request it waits for, and whether a
    \* SIGNED_OUT was processed since the request started
    initPc, initReq, initStale,
    \* SIGNED_IN callbacks waiting for their verification
    handlers,
    \* Login.handleSubmit -> signIn: position, authData.session, the request
    \* it waits for, and whether a SIGNED_OUT was processed since it started
    signInPc, authData, signInReq, signInStale,
    \* AdminLayout.handleSignOut -> signOut: position
    signOutPc,
    \* router location
    path,
    \* history: principals for which a verification returned true
    verified,
    \* history: what the step just taken did (an event processed, a call returned)
    last,
    \* input and result of a function taken on its own
    \* (checkAdminStatusDirectly, generateBlogContent)
    vIn, vOut

gateVars == <<user, session, profile, loading, isAdmin>>
effectVars == <<isMounted, timeout, subscribed>>
provVars == <<provSession, issued, events>>
initVars == <<initPc, initReq, initStale>>
signInVars == <<signInPc, authData, signInReq, signInStale>>
fnVars == <<vIn, vOut>>
vars == <<gateVars, effectVars, provVars, initVars, handlers, signInVars,
          signOutPc, path, verified, last, fnVars>>

(* ------------------------------ routing -------------------------------- *)
\* App.tsx: the routes nested under the AdminRoute element
DashboardPaths == {"/", "/users", "/subscriptions", "/coupons", "/tickets",
                   "/inquiries", "/portfolio", "/blog", "/ai-blog", "/analytics",
                   "/emails", "/logs", "/contact-settings", "/smtp-settings",
                   "/settings"}
LoginPath == "/login"
\* locations the user opens or navigates to
NavPaths == {"/", "/login"}

\* what a guard or route element renders
LoadingScreen == "LoadingScreen"
Children == "children"
NavigateTo(p) == [redirect |-> TRUE, to |-> p]
Render(e) == [redirect |-> FALSE, to |-> e]

AdminRouteMutNoRedirect(l, u, a) ==
    IF l THEN Render(LoadingScreen) ELSE Render(Children)
AdminRouteMutNoRoleCheck(l, u, a) ==
    IF l THEN Render(LoadingScreen)
    ELSE IF u = Null THEN NavigateTo(LoginPath)
    ELSE Render(Children)
AdminRoute(l, u, a) ==
    IF l THEN Render(LoadingScreen)
    ELSE IF u = Null \/ ~a THEN NavigateTo(LoginPath)
    ELSE Render(Children)

GuestRouteMutNoRedirect(l, u, a) ==
    IF l THEN Render(LoadingScreen) ELSE Render(Children)
GuestRouteMutUserOnly(l, u, a) ==
    IF l THEN Render(LoadingScreen)
    ELSE IF u # Null THEN NavigateTo("/")
    ELSE Render(Children)
GuestRoute(l, u, a) ==
    IF l THEN Render(LoadingScreen)
    ELSE IF u # Null /\ a THEN NavigateTo("/")
    ELSE Render(Children)

\* the element <Routes> renders at location p: a redirect, the loading screen,
\* the login page or the dashboard layout
RouteElement(p, l, u, a) ==
    IF p = LoginPath THEN
        (IF GuestRoute(l, u, a) = Render(Children) THEN Render("Login")
         ELSE GuestRoute(l, u, a))
    ELSE IF p \in DashboardPaths THEN
        (IF AdminRoute(l, u, a) = Render(Children) THEN Render("AdminLayout")
         ELSE AdminRoute(l, u, a))
    ELSE NavigateTo("/")

Screen(p) == RouteElement(p, loading, user, isAdmin)

(* ------------------------------- Init ---------------------------------- *)
Event(e, s) == [event |-> e, session |-> s]

\* the record of a step: the event a callback processed and the verdict
\* before it, or the value a call of signIn or signOut ended with
NoStep == [op |-> "none", event |-> "none", wasGranted |-> FALSE,
           error |-> Pending, authError |-> NoError, authData |-> NoSession,
           request |-> NoRequest, verdict |-> Pending, signOutCalled |-> FALSE,
           outcome |-> "none", pending |-> FALSE, timerFired |-> FALSE]
EventStep(e, g) == [NoStep EXCEPT !.op = "event", !.event = e, !.wasGranted = g]
SignInStep(err, aerr, ad, req, v, so) ==
    [NoStep EXCEPT !.op = "signIn", !.error = err, !.authError = aerr,
                   !.authData = ad, !.request = req, !.verdict = v,
                   !.signOutCalled = so]
SignOutStep(err) == [NoStep EXCEPT !.op = "signOut", !.error = err]
\* getSession answered ("session", "null", "unmounted") or threw ("throws")
GetSessionStep(o) == [NoStep EXCEPT !.op = "getSession", !.outcome = o]
\* a verification started by initializeAuth or by a callback resolved: its
\* request and result, the verdict before, and whether the timer had fired
VerifyStep(o, req, v, g, tf) ==
    [NoStep EXCEPT !.op = o, !.request = req, !.verdict = v, !.wasGranted = g,
                   !.timerFired = tf]
\* the fallback timer fired, with initializeAuth's verification pending or not
TimerStep(p) == [NoStep EXCEPT !.op = "timeout", !.pending = p]

\* the provider may hold a session persisted by an earlier visit and
\* announces it, if at all, with INITIAL_SESSION or SIGNED_IN
InitProvider ==
    /\ \E s \in {NoSession} \cup {NewSession(u, 1) : u \in Principals} :
          /\ provSession = s
          /\ events \in {<<>>, <<Event("INITIAL_SESSION", s)>>}
                          \cup (IF s = NoSession THEN {} ELSE {<<Event("SIGNED_IN", s)>>})
    /\ issued = 0

Init ==
    /\ user = Null /\ session = NoSession /\ profile = Null
    /\ loading = TRUE /\ isAdmin = FALSE
    /\ isMounted = TRUE /\ timeout = "armed" /\ subscribed = TRUE
    /\ InitProvider
    /\ initPc = "getSession" /\ initReq = NoRequest /\ initStale = FALSE
    /\ handlers = <<>>
    /\ signInPc = "idle" /\ authData = NoSession /\ signInReq = NoRequest
    /\ signInStale = FALSE
    /\ signOutPc = "idle"
    /\ path \in NavPaths
    /\ verified = {}
    /\ last = NoStep
    /\ vIn = FetchRejected /\ vOut = Pending

(* ------------------------ identity provider ---------------------------- *)
\* the provider notifies the subscriber, if there still is one
Emit(e, s) == IF subscribed THEN Append(events, Event(e, s)) ELSE events
CanEmit == Len(events) < MaxQueue

\* the token of the provider's session is refreshed
ProviderTokenRefreshed ==
    /\ subscribed
    /\ provSession # NoSession /\ issued < MaxSessions /\ CanEmit
    /\ provSession' = NewSession(provSession.user, issued + 2)
    /\ issued' = issued + 1
    /\ events' = Emit("TOKEN_REFRESHED", provSession')
    /\ last' = NoStep
    /\ UNCHANGED <<gateVars, effectVars, initVars, handlers, signInVars,
                   signOutPc, path, verified, fnVars>>

\* a sign-in that did not go through this gate's signIn (another tab)
ProviderExternalSignIn ==
    /\ subscribed
    /\ issued < MaxSessions /\ CanEmit
    /\ \E u \in Principals :
          /\ provSession' = NewSession(u, issued + 2)
          /\ events' = Emit("SIGNED_IN", provSession')
    /\ issued' = issued + 1
    /\ last' = NoStep
    /\ UNCHANGED <<gateVars, effectVars, initVars, handlers, signInVars,
                   signOutPc, path, verified, fnVars>>

\* the session ends without this gate's signOut (another tab, expiry)
ProviderExternalSignOut ==
    /\ subscribed
    /\ provSession # NoSession /\ CanEmit
    /\ provSession' = NoSession
    /\ events' = Emit("SIGNED_OUT", NoSession)
    /\ last' = NoStep
    /\ UNCHANGED <<gateVars, effectVars, issued, initVars, handlers, signInVars,
                   signOutPc, path, verified, fnVars>>

(* --------------------------- initializeAuth ---------------------------- *)
\* finally { if (isMounted) setLoading(false) }
FinallyLoadingMutToggle == IF isMounted THEN ~loading ELSE loading
FinallyLoadingMutKeep == loading
FinallyLoading == IF isMounted THEN FALSE ELSE loading

\* the history of verifications that returned true
Record(req, outcome) == IF outcome = "true" THEN verified \cup {req.userId} ELSE verified

\* await supabase.auth.getSession() throws
InitGetSessionThrows ==
    /\ initPc = "getSession"
    /\ initPc' = "done"
    /\ loading' = FinallyLoading
    /\ last' = GetSessionStep("throws")
    /\ UNCHANGED <<user, session, profile, isAdmin, effectVars, provVars, initReq,
                   initStale, handlers, signInVars, signOutPc, path, verified, fnVars>>

\* await supabase.auth.getSession() returns the provider's session
InitGetSession ==
    /\ initPc = "getSession"
    /\ IF ~isMounted
       THEN /\ initPc' = "done"
            /\ last' = GetSessionStep("unmounted")
            /\ UNCHANGED <<user, session, loading, initReq>>
       ELSE /\ session' = provSession
            /\ user' = provSession.user
            /\ IF HasUserAndToken(provSession)
               THEN /\ initPc' = "verify"
                    /\ initReq' = Request(provSession.user, provSession.access_token)
                    /\ last' = GetSessionStep("session")
                    /\ UNCHANGED loading
               ELSE /\ initPc' = "done"
                    /\ loading' = FinallyLoading
                    /\ last' = GetSessionStep("null")
                    /\ UNCHANGED initReq
    /\ UNCHANGED <<profile, isAdmin, effectVars, provVars, initStale, handlers,
                   signInVars, signOutPc, path, verified, fnVars>>

\* if (isMounted) setIsAdmin(adminStatus)
InitVerdictMutTimedOut(r) ==
    IF isMounted /\ r # "throw" /\ timeout # "fired" THEN r = "true" ELSE isAdmin
InitVerdict(r) == IF isMounted /\ r # "throw" THEN r = "true" ELSE isAdmin

\* the verification started by initializeAuth resolves
InitVerifyDone ==
    /\ initPc = "verify"
    /\ \E resp \in ServerAnswers(initReq.userId) :
          LET r == checkAdminStatusDirectly(resp) IN
          /\ isAdmin' = InitVerdict(r)
          /\ verified' = Record(initReq, r)
          /\ last' = [VerifyStep("initVerify", initReq, r, isAdmin, timeout = "fired")
                         EXCEPT !.pending = \E i \in 1..Len(handlers) :
                                               handlers[i].req.userId = initReq.userId]
    /\ loading' = FinallyLoading
    /\ initPc' = "done"
    /\ initReq' = NoRequest
    /\ initStale' = FALSE
    /\ UNCHANGED <<user, session, profile, effectVars, provVars, handlers,
                   signInVars, signOutPc, path, fnVars>>

(* --------------------------- fallback timeout -------------------------- *)
\* the callback reads the loading of the render that created the effect
LoadingAtMountMutFalse == FALSE
LoadingAtMount == TRUE

Timeout ==
    /\ timeout = "armed"
    /\ timeout' = "fired"
    /\ loading' = IF isMounted /\ LoadingAtMount THEN FALSE ELSE loading
    /\ last' = TimerStep(initPc = "verify")
    /\ UNCHANGED <<user, session, profile, isAdmin, isMounted, subscribed, provVars,
                   initVars, handlers, signInVars, signOutPc, path, verified, fnVars>>

(* ------------------------------ cleanup -------------------------------- *)
Unmount ==
    /\ isMounted
    /\ isMounted' = FALSE
    /\ timeout' = IF timeout = "armed" THEN "cleared" ELSE timeout
    /\ subscribed' = FALSE
    /\ events' = <<>>
    /\ last' = NoStep
    /\ UNCHANGED <<gateVars, provSession, issued, initVars, handlers, signInVars,
                   signOutPc, path, verified, fnVars>>

(* ----------------------- onAuthStateChange callback -------------------- *)
HandlerMutCachedToken(req) ==
    [req |-> Request(req.userId, session.access_token), stale |-> FALSE]
Handler(req) == [req |-> req, stale |-> FALSE]
RemoveAt(q, i) == [j \in 1..(Len(q) - 1) |-> IF j < i THEN q[j] ELSE q[j + 1]]
MarkStale(q) == [j \in 1..Len(q) |-> [q[j] EXCEPT !.stale = TRUE]]

\* event === 'SIGNED_OUT': setIsAdmin(false)
OnSignedOutMutKeep(a) == a
OnSignedOut(a) == FALSE

\* event === 'SIGNED_IN' && session?.user && session.access_token
StartsVerifyMutAnyEvent(e) == e.event # "SIGNED_OUT" /\ HasUserAndToken(e.session)
StartsVerify(e) == e.event = "SIGNED_IN" /\ HasUserAndToken(e.session)

\* the callback runs up to its first await (SIGNED_IN) or to its end
DeliverEvent ==
    /\ events # <<>>
    /\ isMounted
    /\ LET e == Head(events) IN
       /\ events' = Tail(events)
       /\ session' = e.session
       /\ user' = e.session.user
       /\ last' = EventStep(e.event, ~loading /\ isAdmin)
       /\ IF StartsVerify(e)
          THEN /\ handlers' = Append(handlers,
                       Handler(Request(e.session.user, e.session.access_token)))
               /\ UNCHANGED <<profile, isAdmin, loading, initStale, signInStale>>
          ELSE IF e.event = "SIGNED_OUT"
          THEN /\ profile' = Null
               /\ isAdmin' = OnSignedOut(isAdmin)
               /\ loading' = FALSE
               /\ initStale' = (initPc = "verify")
               /\ handlers' = MarkStale(handlers)
               /\ signInStale' = (signInPc = "verify")
          ELSE /\ loading' = FALSE
               /\ UNCHANGED <<profile, isAdmin, initStale, handlers, signInStale>>
    /\ UNCHANGED <<effectVars, provSession, issued, initPc, initReq, signInPc,
                   authData, signInReq, signOutPc, path, verified, fnVars>>

\* if (isMounted) setIsAdmin(adminStatus)
HandlerVerdictMutOnce(r) ==
    IF isMounted /\ r # "throw" THEN r = "true" /\ ~isAdmin ELSE isAdmin
HandlerVerdict(r) == IF isMounted /\ r # "throw" THEN r = "true" ELSE isAdmin

\* the verification started by a SIGNED_IN callback resolves
HandlerVerifyDone ==
    \E i \in 1..Len(handlers) :
      /\ \E resp \in ServerAnswers(handlers[i].req.userId) :
            LET r == checkAdminStatusDirectly(resp) IN
            /\ isAdmin' = HandlerVerdict(r)
            /\ loading' = IF r = "throw" THEN loading ELSE FALSE
            /\ verified' = Record(handlers[i].req, r)
            /\ last' = [VerifyStep("handlerVerify", handlers[i].req, r, isAdmin,
                                   timeout = "fired")
                           EXCEPT !.pending = (initPc = "verify"
                                     /\ initReq.userId = handlers[i].req.userId)]
      /\ handlers' = RemoveAt(handlers, i)
      /\ UNCHANGED <<user, session, profile, effectVars, provVars, initVars,
                     signInVars, signOutPc, path, fnVars>>

(* ------------------------- Login -> signIn ----------------------------- *)
\* handleSubmit: the form is on screen and no submission is running
SubmitLogin ==
    /\ isMounted
    /\ signInPc = "idle"
    /\ Screen(path) = Render("Login")
    /\ signInPc' = "signInWithPassword"
    /\ last' = NoStep
    /\ UNCHANGED <<gateVars, effectVars, provVars, initVars, handlers, authData,
                   signInReq, signInStale, signOutPc, path, verified, fnVars>>

\* handleSubmit after signIn returned: show the error, or navigate('/')
AfterSignIn(err) == IF err = NoError THEN "/" ELSE path

\* if (authError) return { error: authError }
RejectedResultMutGeneric(err) == NoUserReturned
RejectedResult(err) == err

\* signInWithPassword answers with an error object
SignInRejected ==
    /\ signInPc = "signInWithPassword"
    /\ \E err \in ProviderErrors :
          /\ last' = SignInStep(RejectedResult(err), err, NoSession, NoRequest,
                                Pending, FALSE)
          /\ path' = AfterSignIn(RejectedResult(err))
    /\ signInPc' = "idle"
    /\ UNCHANGED <<gateVars, effectVars, provVars, initVars, handlers, authData,
                   signInReq, signInStale, signOutPc, verified, fnVars>>

\* signInWithPassword throws, or answers without a user or session
SignInFailed ==
    /\ signInPc = "signInWithPassword"
    /\ \E err \in {SignInThrown, NoUserReturned} :
          /\ last' = SignInStep(err, NoError, NoSession, NoRequest, Pending, FALSE)
          /\ path' = AfterSignIn(err)
    /\ signInPc' = "idle"
    /\ UNCHANGED <<gateVars, effectVars, provVars, initVars, handlers, authData,
                   signInReq, signInStale, signOutPc, verified, fnVars>>

\* checkAdminStatusDirectly(authData.user.id, authData.session.access_token)
SignInRequestMutCached(ad, s) == Request(s.user, s.access_token)
SignInRequest(ad, s) == Request(ad.user, ad.access_token)

\* signInWithPassword accepts the credentials of a principal: the provider
\* issues a session and announces it; signIn starts its verification
SignInAccepted ==
    /\ signInPc = "signInWithPassword"
    /\ issued < MaxSessions /\ CanEmit
    /\ \E u \in Principals :
          /\ provSession' = NewSession(u, issued + 2)
          /\ events' = Emit("SIGNED_IN", provSession')
          /\ authData' = provSession'
          /\ signInReq' = SignInRequest(authData', session)
    /\ issued' = issued + 1
    /\ signInPc' = "verify"
    /\ signInStale' = FALSE
    /\ last' = NoStep
    /\ UNCHANGED <<gateVars, effectVars, initVars, handlers, signOutPc, path,
                   verified, fnVars>>

\* if (!isAdminUser) sign out ... else setIsAdmin(true)
SignInGrantsMutAlways(r) == TRUE
SignInGrants(r) == r = "true"

\* the verification started by signIn resolves
SignInVerifyDone ==
    /\ signInPc = "verify"
    /\ \E resp \in ServerAnswers(signInReq.userId) :
          LET r == checkAdminStatusDirectly(resp) IN
          /\ verified' = Record(signInReq, r)
          /\ IF r = "throw"
             THEN /\ last' = SignInStep(VerifyThrown, NoError, authData, signInReq,
                                        r, FALSE)
                  /\ path' = AfterSignIn(VerifyThrown)
                  /\ signInPc' = "idle"
                  /\ authData' = NoSession /\ signInReq' = NoRequest
                  /\ UNCHANGED isAdmin
             ELSE IF SignInGrants(r)
             THEN /\ isAdmin' = TRUE
                  /\ last' = SignInStep(NoError, NoError, authData, signInReq, r, FALSE)
                  /\ path' = AfterSignIn(NoError)
                  /\ signInPc' = "idle"
                  /\ authData' = NoSession /\ signInReq' = NoRequest
             ELSE /\ signInPc' = "signOut"
                  /\ last' = NoStep
                  /\ UNCHANGED <<isAdmin, path, authData, signInReq>>
    /\ signInStale' = FALSE
    /\ UNCHANGED <<user, session, profile, loading, effectVars, provVars, initVars,
                   handlers, signOutPc, fnVars>>

\* await supabase.auth.signOut() of the non-admin branch ends the session,
\* answers an error, or throws
SignInSignOutDone ==
    /\ signInPc = "signOut"
    /\ \/ /\ CanEmit
          /\ provSession' = NoSession
          /\ events' = Emit("SIGNED_OUT", NoSession)
          /\ last' = SignInStep(AccessDenied, NoError, authData, signInReq, "false", TRUE)
          /\ path' = AfterSignIn(AccessDenied)
       \/ /\ last' = SignInStep(AccessDenied, NoError, authData, signInReq, "false", TRUE)
          /\ path' = AfterSignIn(AccessDenied)
          /\ UNCHANGED <<provSession, events>>
       \/ /\ last' = SignInStep(SignOutThrown, NoError, authData, signInReq, "false", TRUE)
          /\ path' = AfterSignIn(SignOutThrown)
          /\ UNCHANGED <<provSession, events>>
    /\ signInPc' = "idle"
    /\ authData' = NoSession /\ signInReq' = NoRequest
    /\ UNCHANGED <<gateVars, effectVars, issued, initVars, handlers, signInStale,
                   signOutPc, verified, fnVars>>

(* ----------------------- AdminLayout -> signOut ------------------------ *)
\* handleSignOut: the sign-out button of the dashboard layout is on screen
ClickSignOut ==
    /\ isMounted
    /\ signOutPc = "idle"
    /\ Screen(path) = Render("AdminLayout")
    /\ signOutPc' = "awaiting"
    /\ last' = NoStep
    /\ UNCHANGED <<gateVars, effectVars, provVars, initVars, handlers, signInVars,
                   path, verified, fnVars>>

\* supabase.auth.signOut() ends the session or answers an error; signOut
\* resets the state and handleSignOut navigates to /login
SignOutDone ==
    /\ signOutPc = "awaiting"
    /\ \/ /\ CanEmit
          /\ provSession' = NoSession
          /\ events' = Emit("SIGNED_OUT", NoSession)
          /\ last' = SignOutStep(NoError)
       \/ /\ last' = SignOutStep("signOut error")
          /\ UNCHANGED <<provSession, events>>
    /\ user' = Null /\ profile' = Null /\ session' = NoSession /\ isAdmin' = FALSE
    /\ path' = LoginPath
    /\ signOutPc' = "idle"
    /\ UNCHANGED <<loading, effectVars, issued, initVars, handlers, signInVars,
                   verified, fnVars>>

\* supabase.auth.signOut() throws: signOut and handleSignOut end with it
SignOutThrows ==
    /\ signOutPc = "awaiting"
    /\ signOutPc' = "idle"
    /\ last' = [SignOutStep(SignOutThrown) EXCEPT !.outcome = "raised"]
    /\ UNCHANGED <<gateVars, effectVars, provVars, initVars, handlers, signInVars,
                   path, verified, fnVars>>

(* ------------------------------ router --------------------------------- *)
\* the user follows a link or uses the history
UserNavigate ==
    /\ isMounted
    /\ \E p \in NavPaths : p # path /\ path' = p
    /\ last' = NoStep
    /\ UNCHANGED <<gateVars, effectVars, provVars, initVars, handlers, signInVars,
                   signOutPc, verified, fnVars>>

\* a rendered <Navigate to=... replace /> changes the location
Redirect ==
    /\ isMounted
    /\ Screen(path).redirect
    /\ path' = Screen(path).to
    /\ last' = NoStep
    /\ UNCHANGED <<gateVars, effectVars, provVars, initVars, handlers, signInVars,
                   signOutPc, verified, fnVars>>

(* --------------------------- specification ----------------------------- *)
Next ==
    \/ ProviderTokenRefreshed
    \/ ProviderExternalSignIn
    \/ ProviderExternalSignOut
    \/ InitGetSessionThrows
    \/ InitGetSession
    \/ InitVerifyDone
    \/ Timeout
    \/ DeliverEvent
    \/ HandlerVerifyDone
    \/ SubmitLogin
    \/ SignInRejected
    \/ SignInFailed
    \/ SignInAccepted
    \/ SignInVerifyDone
    \/ SignInSignOutDone
    \/ ClickSignOut
    \/ SignOutDone
    \/ SignOutThrows
    \/ UserNavigate
    \/ Redirect

\* the gate while its provider stays mounted
Spec == Init /\ [][Next]_vars

\* the gate while its provider stays mounted, with the timer that the event
\* loop runs once its delay has passed; the provider and the record store
\* need never answer
Fairness == WF_vars(Timeout)
SpecLive == Init /\ [][Next]_vars /\ Fairness

\* the gate while its provider stays mounted, with the event loop running
\* the callbacks of the events the provider has announced and React following
\* every rendered <Navigate>
FairnessRoute == WF_vars(DeliverEvent) /\ WF_vars(Redirect)
SpecRoute == Init /\ [][Next]_vars /\ FairnessRoute

\* the gate with the cleanup of its effect
NextTeardown == Next \/ Unmount
SpecTeardown == Init /\ [][NextTeardown]_vars

(* ------------- checkAdminStatusDirectly taken on its own --------------- *)
\* one call of the function on an arbitrary outcome of the request
InitVerify ==
    /\ user = Null /\ session = NoSession /\ profile = Null
    /\ loading = TRUE /\ isAdmin = FALSE
    /\ isMounted = TRUE /\ timeout = "armed" /\ subscribed = TRUE
    /\ provSession = NoSession /\ issued = 0 /\ events = <<>>
    /\ initPc = "getSession" /\ initReq = NoRequest /\ initStale = FALSE
    /\ handlers = <<>>
    /\ signInPc = "idle" /\ authData = NoSession /\ signInReq = NoRequest
    /\ signInStale = FALSE
    /\ signOutPc = "idle"
    /\ path = "/"
    /\ verified = {}
    /\ last = NoStep
    /\ vIn \in Responses
    /\ vOut = Pending

VerifyCall ==
    /\ vOut = Pending
    /\ vOut' = checkAdminStatusDirectly(vIn)
    /\ UNCHANGED <<gateVars, effectVars, provVars, initVars, handlers, signInVars,
                   signOutPc, path, verified, last, vIn>>

NextVerify == VerifyCall
SpecVerify == InitVerify /\ [][NextVerify]_vars

(* ------------------- lib/groq.ts: generateBlogContent ------------------ *)
\* a member of a parsed JSON object as JavaScript sees it
FieldAbsent == [type |-> "undefined", str |-> "", num |-> 0]
FieldNull == [type |-> "null", str |-> "", num |-> 0]
FieldString(t) == [type |-> "string", str |-> t, num |-> 0]
FieldNumber(n) == [type |-> "number", str |-> "", num |-> n]
FieldValues ==
    {FieldAbsent, FieldNull, FieldString(""), FieldString("text"),
     FieldNumber(0), FieldNumber(7)}

\* !value is false
Truthy(f) ==
    \/ f.type = "string" /\ f.str # ""
    \/ f.type = "number" /\ f.num # 0

\* what the text between the fences is: no JSON, or a JSON value
NotJson == [kind |-> "notjson", title |-> FieldAbsent, content |-> FieldAbsent]
JsonScalar(k) == [kind |-> k, title |-> FieldAbsent, content |-> FieldAbsent]
JsonObject(t, c) == [kind |-> "object", title |-> t, content |-> c]
Payloads ==
    {NotJson} \cup {JsonScalar(k) : k \in {"null", "number", "string", "array"}}
    \cup {JsonObject(t, c) : t \in FieldValues, c \in FieldValues}

\* the text of the model: what precedes the payload, the payload, what
\* follows; <fence> stands for the three backquotes of a code fence
Prefixes == {"", " ", "<fence>json\n", "<fence>\n", "<fence>JSON\n", "Here is the post: "}
Suffixes == {"", "\n<fence>", " Hope it helps"}
Texts == [prefix : Prefixes, payload : Payloads, suffix : Suffixes]

\* content.trim() on what precedes the payload
TrimStart(pre) == IF pre = " " THEN "" ELSE pre

\* the two replace() calls of the branch taken
StripOpening(pre) ==
    IF pre = "<fence>json\n" THEN ""
    ELSE IF pre = "<fence>\n" THEN ""
    ELSE IF pre = "<fence>JSON\n" THEN "JSON\n"
    ELSE pre
StartsWithFence(pre) == pre \in {"<fence>json\n", "<fence>\n", "<fence>JSON\n"}
StripClosing(pre, suf) ==
    IF StartsWithFence(pre) /\ suf = "\n<fence>" THEN "" ELSE suf

\* cleanContent: the text JSON.parse receives
CleanContent(text) ==
    [prefix |-> StripOpening(TrimStart(text.prefix)),
     payload |-> text.payload,
     suffix |-> StripClosing(TrimStart(text.prefix), text.suffix)]

\* JSON.parse(cleanContent): a value, or a SyntaxError
JsonParse(clean) ==
    IF clean.prefix # "" \/ clean.suffix # "" \/ clean.payload.kind = "notjson"
    THEN "throw" ELSE "value"

\* result.choices?.[0]?.message?.content
ContentUndefined == [type |-> "undefined", text |-> [prefix |-> "", payload |-> NotJson, suffix |-> ""]]
ContentEmpty == [type |-> "empty", text |-> [prefix |-> "", payload |-> NotJson, suffix |-> ""]]
ContentNumber == [type |-> "number", text |-> [prefix |-> "", payload |-> NotJson, suffix |-> ""]]
ContentText(t) == [type |-> "text", text |-> t]
Contents ==
    {ContentUndefined, ContentEmpty, ContentNumber} \cup {ContentText(t) : t \in Texts}

\* body of the answer of the chat completion endpoint
GroqBodyInvalid == [kind |-> "invalid", message |-> FieldAbsent, content |-> ContentUndefined]
GroqBodyNull == [kind |-> "null", message |-> FieldAbsent, content |-> ContentUndefined]
GroqBodyObject(m, c) == [kind |-> "object", message |-> m, content |-> c]
GroqBodies ==
    {GroqBodyInvalid, GroqBodyNull}
    \cup {GroqBodyObject(m, ContentUndefined) :
             m \in {FieldAbsent, FieldString(""), FieldString("Rate limit reached")}}
    \cup {GroqBodyObject(FieldAbsent, c) : c \in Contents}
GroqResponses ==
    {FetchRejected} \cup {FetchResolved(st, b) : st \in Statuses, b \in GroqBodies}

\* outcome of the api_keys query
KeyOutcomes == {"error", "no row", "empty key", "key"}
\* getGroqApiKey() returns the key, or null
getGroqApiKey(k) == IF k = "key" THEN "key" ELSE Null

\* the value generateBlogContent returns
DataNull == [isNull |-> TRUE, value |-> NotJson]
DataOf(v) == [isNull |-> FALSE, value |-> v]
BlogResult(d, e) == [data |-> d, error |-> e]
\* the call has not returned yet; an exception on its way to the outer catch
BlogPending == [data |-> DataNull, error |-> Pending]
BlogThrown == [data |-> DataNull, error |-> "throw"]

\* if (!blogData.title || !blogData.content)
MissingFieldsMutTitleOnly(v) == ~Truthy(v.title)
MissingFields(v) == ~Truthy(v.title) \/ ~Truthy(v.content)

\* the inner try: clean, parse, validate
ParseBlog(content) ==
    IF content.type # "text" THEN "throw"
    ELSE IF JsonParse(CleanContent(content.text)) = "throw" THEN "throw"
    ELSE IF content.text.payload.kind = "null" THEN "throw"
    ELSE IF MissingFields(content.text.payload) THEN "invalid"
    ELSE "valid"

\* the outer try up to its returns; "throw" reaches the outer catch
GroqTry(resp) ==
    IF resp.fetch = "rejected" THEN BlogThrown
    ELSE IF resp.body.kind \in {"invalid", "null"} THEN BlogThrown
    ELSE IF ~ResponseOk(resp)
    THEN BlogResult(DataNull, IF Truthy(resp.body.message) THEN resp.body.message.str
                              ELSE "Blog generation failed")
    ELSE IF resp.body.content.type \in {"undefined", "empty"}
    THEN BlogResult(DataNull, "No content generated")
    ELSE IF ParseBlog(resp.body.content) = "throw"
    THEN BlogResult(DataNull, "Failed to parse generated content. Please try again.")
    ELSE IF ParseBlog(resp.body.content) = "invalid"
    THEN BlogResult(DataNull, "Invalid blog data: missing title or content")
    ELSE BlogResult(DataOf(resp.body.content.text.payload), Null)

generateBlogContent(in) ==
    IF getGroqApiKey(in.key) = Null
    THEN BlogResult(DataNull, "Groq API key not configured")
    ELSE IF GroqTry(in.resp) = BlogThrown
    THEN BlogResult(DataNull, "Generation failed")
    ELSE GroqTry(in.resp)

\* one call of generateBlogContent on arbitrary outcomes of its requests
InitGroq ==
    /\ user = Null /\ session = NoSession /\ profile = Null
    /\ loading = TRUE /\ isAdmin = FALSE
    /\ isMounted = TRUE /\ timeout = "armed" /\ subscribed = TRUE
    /\ provSession = NoSession /\ issued = 0 /\ events = <<>>
    /\ initPc = "getSession" /\ initReq = NoRequest /\ initStale = FALSE
    /\ handlers = <<>>
    /\ signInPc = "idle" /\ authData = NoSession /\ signInReq = NoRequest
    /\ signInStale = FALSE
    /\ signOutPc = "idle"
    /\ path = "/"
    /\ verified = {}
    /\ last = NoStep
    /\ vIn \in [key : KeyOutcomes, resp : GroqResponses]
    /\ vOut = BlogPending

GroqCall ==
    /\ vOut = BlogPending
    /\ vOut' = generateBlogContent(vIn)
    /\ UNCHANGED <<gateVars, effectVars, provVars, initVars, handlers, signInVars,
                   signOutPc, path, verified, last, vIn>>

NextGroq == GroqCall
SpecGroq == InitGroq /\ [][NextGroq]_vars

(* ------------------------------ claims --------------------------------- *)
\* C1: at every dashboard path the layout with the page is rendered exactly
\* when loading is false, a user is cached and isAdmin is true; while loading
\* the loading screen is rendered; with loading false and no user or no admin
\* verdict the guard redirects to /login.
C1_AdminRouteGate ==
    \A p \in DashboardPaths :
      /\ (Screen(p) = Render("AdminLayout")) <=> (~loading /\ user # Null /\ isAdmin)
      /\ loading => Screen(p) = Render(LoadingScreen)
      /\ (~loading /\ (user = Null \/ ~isAdmin)) => Screen(p) = NavigateTo(LoginPath)
C1_DashboardRendered ==
    path \in DashboardPaths /\ Screen(path) = Render("AdminLayout") /\ isAdmin

\* C2: isAdmin is true only after some verification returned true; no failure
\* path sets it.
C2_FailClosed == isAdmin => verified # {}
C2_GrantedAfterVerify == isAdmin /\ "u1" \in verified /\ initPc = "done"

\* C3: a signIn with valid credentials of a principal whose role is not admin
\* returns the access-denied error and has signed the principal out, so that
\* the provider holds no session when signIn returns.
C3_NonAdminSignedOut ==
    (last.op = "signIn" /\ last.authData # NoSession
       /\ RoleOf(last.authData.user) # "admin")
    => (last.error = AccessDenied /\ last.signOutCalled /\ provSession = NoSession)

\* C4: signIn returns no error exactly when the provider issued a session and
\* the verification requested with that session's user id and token returned
\* true; then, and only then, the returning step sets isAdmin to true.
SignInVerified(l) ==
    /\ l.authData # NoSession
    /\ l.request = Request(l.authData.user, l.authData.access_token)
    /\ l.verdict = "true"
C4_SignInSuccess ==
    [][last'.op = "signIn" =>
         /\ (last'.error = NoError) <=> SignInVerified(last')
         /\ IF SignInVerified(last') THEN isAdmin' ELSE isAdmin' = isAdmin]_vars
C4_SignInGranted ==
    last.op = "signIn" /\ last.error = NoError /\ SignInVerified(last) /\ isAdmin

\* C5: when the provider answers signInWithPassword with an error, signIn
\* returns that error, requests no verification, calls no signOut and writes
\* none of user, session, isAdmin, loading.
C5_RejectedCredentials ==
    [][(last'.op = "signIn" /\ last'.authError # NoError) =>
         /\ last'.error = last'.authError
         /\ last'.request = NoRequest /\ signInReq' = NoRequest
         /\ ~last'.signOutCalled
         /\ UNCHANGED <<user, session, isAdmin, loading, provSession, events>>]_vars
C5_RejectedReturned ==
    last.op = "signIn" /\ last.authError \in ProviderErrors /\ last.error = last.authError

\* C6 as stated: the function returns true exactly for a successful answer of
\* exactly one row whose role is "admin".
AnswerOk(resp) == resp.fetch = "resolved" /\ ResponseOk(resp) /\ resp.body.kind = "array"
C6_ExactlyOneRow ==
    vOut # Pending =>
      (vOut = "true" <=>
         /\ AnswerOk(vIn)
         /\ Len(vIn.body.rows) = 1
         /\ ~vIn.body.rows[1].isNull
         /\ vIn.body.rows[1].role = JsString("admin"))

\* C7: for a successful answer of one row the function returns true for the
\* role "admin" and false for every other role value, with no normalisation.
C7_ExactRole ==
    (vOut # Pending /\ AnswerOk(vIn) /\ Len(vIn.body.rows) = 1
       /\ ~vIn.body.rows[1].isNull)
    => (vOut = IF vIn.body.rows[1].role = JsString("admin") THEN "true" ELSE "false")
C7_OtherCaseDenied ==
    /\ vOut = "false" /\ AnswerOk(vIn) /\ Len(vIn.body.rows) = 1
    /\ vIn.body.rows[1].role = JsString("Admin")

\* C8: when the request fails (fetch rejects, status not 2xx, body not JSON,
\* empty array) the function returns false; it never throws.
RequestFailed(resp) ==
    \/ resp.fetch = "rejected"
    \/ ~ResponseOk(resp)
    \/ resp.body.kind = "invalid"
    \/ (resp.body.kind = "array" /\ Len(resp.body.rows) = 0)
C8_FailuresDenied ==
    /\ vOut \in {Pending, "true", "false"}
    /\ (vOut # Pending /\ RequestFailed(vIn)) => vOut = "false"
C8_BadJsonDenied ==
    /\ vOut = "false" /\ vIn.fetch = "resolved" /\ ResponseOk(vIn)
    /\ vIn.body.kind = "invalid"

\* C9: after a SIGNED_OUT event is processed isAdmin is false and the cached
\* user and session are null, whatever the verdict was before.
C9_SignedOutDenies ==
    (last.op = "event" /\ last.event = "SIGNED_OUT")
    => (~isAdmin /\ user = Null /\ session = NoSession)
C9_SignedOutFromGranted ==
    last.op = "event" /\ last.event = "SIGNED_OUT" /\ last.wasGranted /\ ~isAdmin

\* C10: a verification that was started before a SIGNED_OUT event was
\* processed and resolves after it does not turn isAdmin from false to true.
StaleCompletion ==
    \/ initPc = "verify" /\ initPc' = "done" /\ initStale
    \/ signInPc = "verify" /\ signInPc' # "verify" /\ signInStale
    \/ \E i \in 1..Len(handlers) :
          handlers[i].stale /\ handlers' = RemoveAt(handlers, i)
C10_SignedOutWins ==
    [][StaleCompletion => ~(~isAdmin /\ isAdmin')]_vars

\* C11: when a call of signOut has ended, whether the provider ended the
\* session, answered an error or threw, the local state is the signed-out
\* baseline: user, session and profile null and isAdmin false.
C11_SignOutResets ==
    last.op = "signOut"
    => (user = Null /\ session = NoSession /\ profile = Null /\ ~isAdmin)

\* C12: while the verification started by initializeAuth is pending and the
\* fallback timer has not fired, loading is true.
C12_LoadingHeld ==
    (initPc = "verify" /\ timeout = "armed") => loading

\* C13: while the provider stays mounted loading becomes false and stays
\* false in every execution in which the fallback timer gets to fire, also
\* when getSession or the verification never answers.
C13_LoadingEnds == <>[](~loading)
C13_TimerEndedLoading ==
    /\ last.op = "timeout" /\ initPc \in {"getSession", "verify"}
    /\ events = <<>> /\ handlers = <<>> /\ ~loading

C15_LateResultApplied ==
    (last.op = "initVerify" /\ last.timerFired)
    => (isAdmin = (last.verdict = "true") /\ ~loading)
C15_LateUpgrade ==
    /\ last.op = "initVerify" /\ last.timerFired /\ last.verdict = "true"
    /\ ~last.wasGranted /\ isAdmin /\ ~loading

\* C16: when getSession has answered with no session, or has thrown,
\* initializeAuth has ended with loading false, no cached user or session,
\* isAdmin false and no verification requested.
C16_NoSessionDenied ==
    (last.op = "getSession" /\ last.outcome \in {"null", "throws"})
    => /\ ~loading /\ user = Null /\ session = NoSession /\ ~isAdmin
       /\ initPc = "done" /\ initReq = NoRequest

\* C17: when getSession has answered with a session, that session and its
\* user are cached and the verification is requested with its user id and
\* access token; when that verification has resolved, loading is false and
\* isAdmin is the value returned.
C17_InitVerifies ==
    /\ (last.op = "getSession" /\ last.outcome = "session")
       => /\ session = provSession /\ user = provSession.user
          /\ initPc = "verify"
          /\ initReq = Request(session.user, session.access_token)
    /\ last.op = "initVerify"
       => /\ ~loading /\ isAdmin = (last.verdict = "true")
          /\ initPc = "done"
C17_InitGranted ==
    /\ last.op = "initVerify" /\ last.verdict = "true" /\ isAdmin /\ ~loading
    /\ last.request = Request(user, session.access_token)

\* C18: the callback of a SIGNED_IN event that carries a session caches the
\* session and starts exactly one verification, requested with the event
\* session's user id and access token; when a callback's verification
\* resolves, isAdmin is its result, also when it was true before.
C18_SignedInReverifies ==
    [][/\ (last'.op = "event" /\ last'.event = "SIGNED_IN"
             /\ HasUserAndToken(Head(events).session))
          => /\ session' = Head(events).session
             /\ handlers' = Append(handlers,
                   [req |-> Request(session'.user, session'.access_token),
                    stale |-> FALSE])
       /\ last'.op = "handlerVerify"
          => /\ isAdmin' = (last'.verdict = "true")
             /\ \E i \in 1..Len(handlers) :
                   /\ handlers[i].req = last'.request
                   /\ handlers' = RemoveAt(handlers, i)]_vars
C18_GrantedToDenied ==
    /\ last.op = "handlerVerify" /\ last.wasGranted /\ last.verdict = "false"
    /\ ~isAdmin

\* C19: the callback of an event other than SIGNED_IN and SIGNED_OUT caches
\* the event's session and user, starts no verification and leaves isAdmin
\* unchanged.
C19_OtherEventsKeepVerdict ==
    [][(last'.op = "event" /\ last'.event \notin {"SIGNED_IN", "SIGNED_OUT"})
         => /\ session' = Head(events).session
            /\ user' = Head(events).session.user
            /\ isAdmin' = isAdmin
            /\ UNCHANGED <<handlers, initReq, signInReq>>]_vars
C19_RefreshKeptGranted ==
    /\ last.op = "event" /\ last.event = "TOKEN_REFRESHED"
    /\ isAdmin /\ session.access_token > 1 /\ user # Null

\* C20: whenever a verification is pending, started by initializeAuth, by a
\* SIGNED_IN callback or by signIn, loading is true.
C20_PendingIsLoading ==
    (initPc = "verify" \/ handlers # <<>> \/ signInPc = "verify") => loading

\* C21: a verification started by initializeAuth or by a SIGNED_IN callback
\* that returns true leaves isAdmin true and loading false, whether or not
\* the other verification for the same principal is still pending or has
\* completed before; a second true result does not lower isAdmin.
C21_ConcurrentGranted ==
    [][(last'.op \in {"initVerify", "handlerVerify"} /\ last'.verdict = "true")
         => (isAdmin' /\ ~loading')]_vars
C21_FirstOfTwoGranted ==
    /\ last.op \in {"initVerify", "handlerVerify"} /\ last.pending
    /\ last.verdict = "true" /\ isAdmin /\ ~loading
    /\ (initPc = "verify" \/ handlers # <<>>)

\* C22: no call of initializeAuth, checkAdminStatusDirectly, signIn or
\* signOut ends with an exception raised to its caller.
C22_NeverRaises ==
    /\ last.outcome # "raised"
    /\ last.op = "signIn" => last.error # Pending

\* C23: with loading = true mapped to UNKNOWN, (loading = false, isAdmin =
\* false) to DENIED and (loading = false, isAdmin = true) to GRANTED, the
\* state (loading = true, isAdmin = true) never occurs and every step that
\* changes the mapped state is a listed transition: UNKNOWN to DENIED when
\* getSession found no session, the first verification returned false or the
\* timer fired; UNKNOWN to GRANTED when the first verification returned true;
\* DENIED to GRANTED when a signIn returned with its verification true;
\* GRANTED to DENIED on signOut, a SIGNED_OUT event or a failed re-check.
Mapped(l, a) == IF l THEN "UNKNOWN" ELSE IF a THEN "GRANTED" ELSE "DENIED"
ListedTransition(from, to, step) ==
    \/ /\ from = "UNKNOWN" /\ to = "DENIED"
       /\ \/ step.op = "getSession" /\ step.outcome \in {"null", "throws"}
          \/ step.op = "initVerify" /\ step.verdict = "false"
          \/ step.op = "timeout"
    \/ /\ from = "UNKNOWN" /\ to = "GRANTED"
       /\ step.op = "initVerify" /\ step.verdict = "true"
    \/ /\ from = "DENIED" /\ to = "GRANTED"
       /\ step.op = "signIn" /\ step.error = NoError /\ step.verdict = "true"
    \/ /\ from = "GRANTED" /\ to = "DENIED"
       /\ \/ step.op = "signOut"
          \/ step.op = "event" /\ step.event = "SIGNED_OUT"
          \/ step.op \in {"initVerify", "handlerVerify"} /\ step.verdict = "false"
C23_RefinesThreeStates ==
    [][/\ ~(loading' /\ isAdmin')
       /\ Mapped(loading, isAdmin) # Mapped(loading', isAdmin')
          => ListedTransition(Mapped(loading, isAdmin), Mapped(loading', isAdmin'),
                              last')]_vars

\* C24: whenever a dashboard path renders the layout, the cached user is a
\* principal for whom a verification returned true.
C24_VerdictBoundToUser ==
    (\E p \in DashboardPaths : Screen(p) = Render("AdminLayout"))
    => user \in verified

\* C25: with loading false exactly one of AdminRoute and GuestRoute renders
\* its children and the other redirects to the route of the first; from every
\* path, also an unknown one, following the redirects reaches a rendered
\* screen after at most two of them.
UnknownPath == "/no-such-page"
AllPaths == DashboardPaths \cup {LoginPath, UnknownPath}
RECURSIVE Settles(_, _)
Settles(p, n) ==
    IF ~Screen(p).redirect THEN TRUE
    ELSE IF n = 0 THEN FALSE
    ELSE Settles(Screen(p).to, n - 1)
C25_GuardsComplementary ==
    /\ ~loading =>
         \/ /\ AdminRoute(loading, user, isAdmin) = Render(Children)
            /\ GuestRoute(loading, user, isAdmin) = NavigateTo("/")
         \/ /\ GuestRoute(loading, user, isAdmin) = Render(Children)
            /\ AdminRoute(loading, user, isAdmin) = NavigateTo(LoginPath)
    /\ \A p \in AllPaths : Settles(p, 2)
C25_GuestRedirected ==
    /\ ~loading /\ path = LoginPath /\ Screen(path) = NavigateTo("/")
    /\ Screen("/") = Render("AdminLayout")

\* C26 as stated: after signIn has returned without error, with the user of
\* its session cached or its SIGNED_IN event still to be delivered, the
\* dashboard is eventually rendered, unless a sign-out occurs.
SignedInOk ==
    /\ last.op = "signIn" /\ last.error = NoError
    /\ \/ user = last.authData.user
       \/ \E i \in 1..Len(events) : events[i] = Event("SIGNED_IN", last.authData)
DashboardShown == path \in DashboardPaths /\ Screen(path) = Render("AdminLayout")
SignOutOccurred ==
    \/ provSession = NoSession
    \/ last.op = "signOut"
    \/ last.op = "event" /\ last.event = "SIGNED_OUT"
RecheckFailed ==
    last.op \in {"initVerify", "handlerVerify"} /\ last.verdict = "false"
C27_LoadingMonotone == [][~loading => ~loading']_vars
C27_StepsAfterLoaded ==
    /\ ~loading /\ initPc = "done" /\ timeout = "fired"
    /\ last.op = "signIn" /\ last.error = NoError

\* C28: after the cleanup of the effect, no step of initializeAuth, of the
\* timer or of a callback of the subscription changes user, session, isAdmin
\* or loading; the timer is cleared and the subscription is cancelled.
C28_NoWriteAfterTeardown ==
    [][~isMounted =>
         /\ ~subscribed' /\ timeout' # "armed"
         /\ last'.op \in {"getSession", "initVerify", "handlerVerify", "timeout", "event"}
            => UNCHANGED <<user, session, isAdmin, loading>>]_vars

\* C29: every call of generateBlogContent returns a result in which exactly
\* one of data and error is non-null, and data is non-null only when the key
\* was found, the endpoint answered with success and a text that, with its
\* code fences removed, is a JSON object with non-empty title and content.
NonEmptyField(f) ==
    /\ f.type \in {"string", "number"}
    /\ f # FieldString("") /\ f # FieldNumber(0)
TextIsJson(t) ==
    /\ t.payload.kind # "notjson"
    /\ \/ t.prefix \in {"", " "} /\ t.suffix = ""
       \/ t.prefix \in {"<fence>json\n", "<fence>\n"} /\ t.suffix \in {"", "\n<fence>"}
C29_DataXorError ==
    vOut # BlogPending =>
      /\ vOut.data.isNull <=> vOut.error # Null
      /\ ~vOut.data.isNull =>
            /\ vIn.key = "key"
            /\ vIn.resp.fetch = "resolved" /\ vIn.resp.status = 200
            /\ vIn.resp.body.kind = "object"
            /\ vIn.resp.body.content.type = "text"
            /\ TextIsJson(vIn.resp.body.content.text)
            /\ vIn.resp.body.content.text.payload.kind = "object"
            /\ NonEmptyField(vIn.resp.body.content.text.payload.title)
            /\ NonEmptyField(vIn.resp.body.content.text.payload.content)
            /\ vOut.data.value = vIn.resp.body.content.text.payload
C29_FencedJsonReturned ==
    /\ vOut # BlogPending /\ ~vOut.data.isNull /\ vOut.error = Null
    /\ vIn.resp.body.content.text.prefix = "<fence>json\n"
    /\ vIn.resp.body.content.text.suffix = "\n<fence>"

====
